---- MODULE Spec2Model ----
(***************************************************************************)
(* State-machine model of the bang suggestion dropdown                     *)
(* (src/src/components/BangDropdown.ts) together with the callers and the  *)
(* event loop it runs on: timers, DOM listeners and the worker channel.    *)
(***************************************************************************)
EXTENDS Integers, Sequences, FiniteSets, TLC

\* ------------------------------------------------------------------ bounds
MaxTimers == 2        \* pending setTimeout callbacks
MaxRequests == 2      \* worker requests issued
ConfiguredMaxItems == 2   \* the maxItems a caller passes in its options
MaxValueLen == 3      \* longest text in the search input
MaxCursorTimers == 2  \* pending cursor-placement callbacks
MaxSubmits == 2       \* submits whose timer is pending

\* --------------------------------------------------------------- constants
NoContainer == 0          \* container = null
DefaultMaxItems == 25     \* options.maxItems default
ClickConfirmDelay == 10   \* delay of the outside-click confirmation timer
HideTickDelay == 0        \* delay of the timer hide() schedules
BangPrefix == "!"         \* the character handleBangSelection looks for

\* characters a query is made of: two letters, the space and the tab
Letters == {"g", "i"}
Chars == Letters \cup {" ", "\t"}
Whitespace == {" ", "\t"}

\* the queries a caller passes to show(): "", "g", "i", "g i" and "g<TAB>i"
Queries == {<<>>, <<"g">>, <<"i">>, <<"g", " ", "i">>, <<"g", "\t", "i">>}

\* String.prototype.includes(' ')
IncludesSpace(query) == \E k \in 1..Len(query) : query[k] = " "

ContainsWhitespace(query) == \E k \in 1..Len(query) : query[k] \in Whitespace

\* ------------------------------------------------------------ the catalog
\* getCombinedBangs(settings): t trigger, s service name, r weight
Catalog ==
  { [t |-> <<"g">>,      s |-> <<"g", "i">>, r |-> 3],
    [t |-> <<"g", "i">>, s |-> <<"i", "g">>, r |-> 2],
    [t |-> <<"i">>,      s |-> <<"i", "g">>, r |-> 1] }

CharOrd(c) == CASE c = "\t" -> 1 [] c = " " -> 2 [] c = "g" -> 3 [] c = "i" -> 4

StartsWith(text, part) ==
  /\ Len(part) <= Len(text)
  /\ \A k \in 1..Len(part) : text[k] = part[k]

Contains(text, part) ==
  \E off \in 0..(Len(text) - Len(part)) :
    \A k \in 1..Len(part) : text[off + k] = part[k]

RECURSIVE LexLess(_, _)
LexLess(a, b) ==
  IF b = <<>> THEN FALSE
  ELSE IF a = <<>> THEN TRUE
  ELSE IF a[1] # b[1] THEN CharOrd(a[1]) < CharOrd(b[1])
  ELSE LexLess(Tail(a), Tail(b))

\* ranking tier of a bang for a query; 0 = no match
Tier(b, query) ==
  IF b.t = query THEN 1
  ELSE IF StartsWith(b.t, query) THEN 2
  ELSE IF Contains(b.s, query) THEN 3
  ELSE 0

RanksBefore(a, b, query) ==
  LET ta == Tier(a, query)
      tb == Tier(b, query)
  IN IF ta # tb THEN ta < tb
     ELSE IF ta = 2 /\ Len(a.t) # Len(b.t) THEN Len(a.t) < Len(b.t)
     ELSE IF a.r # b.r THEN a.r > b.r
     ELSE LexLess(a.t, b.t)

\* filterAndSortBangs(combinedBangs, query, maxItems)
filterAndSortBangs(bangs, query, maxItems) ==
  IF query = <<>> \/ ContainsWhitespace(query) THEN <<>>
  ELSE LET hits == {b \in bangs : Tier(b, query) > 0}
           pos(b) == 1 + Cardinality({a \in hits : RanksBefore(a, b, query)})
           n == IF Cardinality(hits) < maxItems THEN Cardinality(hits) ELSE maxItems
       IN [k \in 1..n |-> CHOOSE b \in hits : pos(b) = k]


\* ------------------------------------------------------------------ state
VARIABLES
  container,      \* this.container: NoContainer or the element
  isVisible,      \* this.isVisible
  selectedIndex,  \* this.selectedIndex (0-based, -1 = none)
  filteredBangs,  \* this.filteredBangs
  options,        \* this.options
  resizeHandler,  \* this.resizeHandler is not null
  listeners,      \* handlers registered on document, input and window
  dom,            \* elements attached to the document
  rendered,       \* number of item elements (.cursor-pointer) in the container
  timers,         \* pending setTimeout callbacks, in scheduling order
  calls,          \* onSelectBang calls made by the last handler
  issued,         \* highest requestId issued to the worker
  inflight,       \* worker responses not yet delivered
  disposed,       \* dispose() has returned
  ev,             \* the last event handled
  arg,            \* the query of the last event, when it was a show() call
  matcherRan,     \* the last handler called filterAndSortBangs
  repositioned,   \* the last handler called positionDropdown
  delivered,      \* requestId of the response the last event delivered, 0 if none
  inputValue,     \* SearchForm: inputElement.value
  cursor,         \* SearchForm: inputElement.selectionStart = selectionEnd
  cursorTimers,   \* SearchForm: pending cursor-placement callbacks, oldest first
  overlays,       \* SearchForm: loading overlays that are children of document.body
  submitTimers,   \* SearchForm: pending submit callbacks, oldest first
  navigated,      \* SearchForm: a performRedirect() call has returned true
  location        \* SearchForm: the query of the URL last pushed to the history

vars == <<container, isVisible, selectedIndex, filteredBangs, options,
          resizeHandler, listeners, dom, rendered, timers, calls,
          issued, inflight, disposed, ev, arg, matcherRan, repositioned,
          delivered, inputValue, cursor, cursorTimers, overlays, submitTimers,
          navigated, location>>

dropdownVars ==
  <<container, isVisible, selectedIndex, filteredBangs, options,
    resizeHandler, listeners, dom, rendered, timers, calls,
    issued, inflight, disposed, arg, matcherRan, repositioned, delivered>>

cursorVars == <<inputValue, cursor, cursorTimers>>

submitVars == <<overlays, submitTimers, navigated, location>>

DocumentClick == "document.click"
InputKeydown == "input.keydown"
WindowResize == "window.resize"

HideTick == [kind |-> "hideTick", delay |-> HideTickDelay]
ClickConfirm == [kind |-> "clickConfirm", delay |-> ClickConfirmDelay]

\* the controller and the part of the page it acts on, as one value that the
\* methods below transform
This ==
  [container |-> container, isVisible |-> isVisible,
   selectedIndex |-> selectedIndex, filteredBangs |-> filteredBangs,
   resizeHandler |-> resizeHandler, listeners |-> listeners,
   dom |-> dom, rendered |-> rendered, timers |-> timers, calls |-> <<>>,
   matcherRan |-> FALSE, repositioned |-> FALSE]

\* -------------------------------------------------------------- the methods
clear(w) ==
  [w EXCEPT !.rendered = 0, !.selectedIndex = -1]

renderItems(w, items) ==
  LET c == clear(w)
  IN IF c.container # NoContainer THEN [c EXCEPT !.rendered = Len(items)] ELSE c

populate(w) ==
  IF w.container # NoContainer THEN renderItems(w, w.filteredBangs) ELSE w

hide(w) ==
  IF w.container # NoContainer
  THEN [w EXCEPT !.dom = @ \ {w.container},
                 !.container = NoContainer,
                 !.rendered = 0,
                 !.isVisible = FALSE,
                 !.selectedIndex = -1,
                 !.timers = Append(@, HideTick)]
  ELSE w

\* the callback hide() passes to setTimeout
hideTick(w) ==
  [w EXCEPT !.dom = @ \ {w.container},
            !.container = NoContainer,
            !.rendered = 0]

\* the input sits in a wrapper or parent, so one of the appendChild branches runs
ensureContainer(w) ==
  IF w.container = NoContainer
  THEN LET el == CHOOSE e \in 1..(Cardinality(w.dom) + 1) : e \notin w.dom
       IN [w EXCEPT !.container = el,
                    !.dom = @ \cup {el},
                    !.repositioned = options.appendTo /\ options.positionStyle = "fixed"]
  ELSE w

\* show() returning on a space without calling hide()
showReturnsOnSpace(w, query) ==
  LET w1 == ensureContainer(w)
  IN IF w1.container = NoContainer THEN w1
     ELSE IF IncludesSpace(query) THEN w1
     ELSE LET w2 == [w1 EXCEPT !.isVisible = TRUE]
          IN IF query = <<>>
             THEN [w2 EXCEPT !.rendered = 0]
             ELSE LET w3 == populate([w2 EXCEPT !.matcherRan = TRUE,
                                      !.filteredBangs =
                               filterAndSortBangs(Catalog, query, options.maxItems)])
                  IN IF w3.container # NoContainer
                        /\ options.positionStyle = "fixed" /\ options.appendTo
                     THEN [w3 EXCEPT !.repositioned = TRUE]
                     ELSE w3

\* show() calling the matcher without the configured cap
showUncapped(w, query) ==
  LET w1 == ensureContainer(w)
  IN IF w1.container = NoContainer THEN w1
     ELSE IF IncludesSpace(query) THEN hide(w1)
     ELSE LET w2 == [w1 EXCEPT !.isVisible = TRUE]
          IN IF query = <<>>
             THEN [w2 EXCEPT !.rendered = 0]
             ELSE populate([w2 EXCEPT !.matcherRan = TRUE,
                                      !.filteredBangs =
                               filterAndSortBangs(Catalog, query, Cardinality(Catalog))])

show(w, query) ==
  LET w1 == ensureContainer(w)
  IN IF w1.container = NoContainer THEN w1
     ELSE IF IncludesSpace(query) THEN hide(w1)
     ELSE LET w2 == [w1 EXCEPT !.isVisible = TRUE]
          IN IF query = <<>>
             THEN [w2 EXCEPT !.rendered = 0]
             ELSE LET w3 == populate([w2 EXCEPT !.matcherRan = TRUE,
                                      !.filteredBangs =
                               filterAndSortBangs(Catalog, query, options.maxItems)])
                  IN IF w3.container # NoContainer
                        /\ options.positionStyle = "fixed" /\ options.appendTo
                     THEN [w3 EXCEPT !.repositioned = TRUE]
                     ELSE w3

setFilteredBangs(w, bangs) ==
  LET w1 == [w EXCEPT !.filteredBangs = bangs]
  IN IF w1.isVisible /\ w1.container # NoContainer THEN populate(w1) ELSE w1

selectBang(w, bangText) ==
  LET w1 == IF options.onSelectBang
            THEN [w EXCEPT !.calls = Append(@, [bangText |-> bangText,
                                                isVisible |-> w.isVisible])]
            ELSE w
  IN hide(w1)

selectTopOption(w) ==
  IF Len(w.filteredBangs) > 0 THEN selectBang(w, w.filteredBangs[1].t) ELSE w

selectCurrent(w) ==
  IF w.selectedIndex >= 0 /\ w.selectedIndex < Len(w.filteredBangs)
  THEN selectBang(w, w.filteredBangs[w.selectedIndex + 1].t)
  ELSE hide(w)

setSelectedIndex(w, index) == [w EXCEPT !.selectedIndex = index]

\* Navigate(this, direction): move by one, wrapping at both ends
Navigate(w, direction) ==
  LET n == Len(w.filteredBangs)
  IN IF n = 0 THEN w
     ELSE IF direction > 0
          THEN setSelectedIndex(w, IF w.selectedIndex >= n - 1 THEN 0 ELSE w.selectedIndex + 1)
          ELSE setSelectedIndex(w, IF w.selectedIndex <= 0 THEN n - 1 ELSE w.selectedIndex - 1)

\* target: "input", "dropdown" (inside this.container) or "outside"
documentClickHandler(w, target) ==
  IF ~w.isVisible THEN w
  ELSE LET clickedOnDropdown == w.container # NoContainer /\ target = "dropdown"
           clickedOnInput == target = "input"
       IN IF ~clickedOnDropdown /\ ~clickedOnInput
          THEN [hide(w) EXCEPT !.timers = Append(@, ClickConfirm)]
          ELSE w

\* the callback documentClickHandler passes to setTimeout
clickConfirm(w) == IF w.isVisible THEN hide(w) ELSE w

tabKeyHandler(w, key) ==
  IF key = "Tab" /\ w.isVisible /\ Len(w.filteredBangs) > 0
  THEN hide(IF w.selectedIndex >= 0 THEN selectCurrent(w) ELSE selectTopOption(w))
  ELSE w

\* a resize handler that closes the surface instead of moving it
resizeHandlerHides(w) ==
  IF w.isVisible /\ w.container # NoContainer THEN hide(w) ELSE w

\* resizeHandler: positionDropdown only moves the surface on the screen
resizeHandlerCall(w) ==
  IF w.isVisible /\ w.container # NoContainer
  THEN [w EXCEPT !.repositioned = TRUE]
  ELSE w

\* dispose() that forgets the window resize listener
disposeKeepsResize(w) ==
  LET w1 == [w EXCEPT !.listeners = @ \ {DocumentClick, InputKeydown}]
      w2 == hide(w1)
  IN [w2 EXCEPT !.container = NoContainer, !.filteredBangs = <<>>]

dispose(w) ==
  LET w1 == [w EXCEPT !.listeners = @ \ {DocumentClick, InputKeydown}]
      w2 == hide(w1)
      w3 == IF w2.resizeHandler
            THEN [w2 EXCEPT !.listeners = @ \ {WindowResize}, !.resizeHandler = FALSE]
            ELSE w2
  IN [w3 EXCEPT !.container = NoContainer, !.filteredBangs = <<>>]


\* ------------------------------------------------------------- event loop
\* a pending timer fires once every timer scheduled before it with a delay
\* that is not longer has fired
MayFire(i) == \A j \in 1..(i - 1) : timers[j].delay > timers[i].delay

RemoveAt(seq, i) == SubSeq(seq, 1, i - 1) \o SubSeq(seq, i + 1, Len(seq))

\* the state after a handler has run to completion
Commit(w, event, query, responseId) ==
  /\ Len(w.timers) <= MaxTimers
  /\ arg' = query
  /\ matcherRan' = w.matcherRan
  /\ repositioned' = w.repositioned
  /\ container' = w.container
  /\ isVisible' = w.isVisible
  /\ selectedIndex' = w.selectedIndex
  /\ filteredBangs' = w.filteredBangs
  /\ resizeHandler' = w.resizeHandler
  /\ listeners' = w.listeners
  /\ dom' = w.dom
  /\ rendered' = w.rendered
  /\ timers' = w.timers
  /\ calls' = w.calls
  /\ ev' = event
  /\ delivered' = responseId
  /\ UNCHANGED <<options, cursorVars, submitVars>>

\* the options a caller passes: none (absolute positioning, no appendTo), or a
\* callback and a cap with each other combination of positionStyle and appendTo
NoOptions ==
  [positionStyle |-> "absolute", appendTo |-> FALSE, onSelectBang |-> FALSE,
   maxItems |-> DefaultMaxItems]

OptionSets ==
  { NoOptions,
    [positionStyle |-> "absolute", appendTo |-> TRUE, onSelectBang |-> TRUE,
     maxItems |-> ConfiguredMaxItems],
    [positionStyle |-> "fixed", appendTo |-> FALSE, onSelectBang |-> TRUE,
     maxItems |-> ConfiguredMaxItems],
    [positionStyle |-> "fixed", appendTo |-> TRUE, onSelectBang |-> TRUE,
     maxItems |-> ConfiguredMaxItems] }

\* new SearchForm(), whose BangSuggestionManager constructs the dropdown:
\* new BangDropdown(inputElement, options)
Init ==
  /\ inputValue = <<>>
  /\ cursor = 0
  /\ cursorTimers = <<>>
  /\ overlays = {}
  /\ submitTimers = <<>>
  /\ navigated = FALSE
  /\ location = <<>>
  /\ options \in OptionSets
  /\ container = NoContainer
  /\ isVisible = FALSE
  /\ selectedIndex = -1
  /\ filteredBangs = <<>>
  /\ resizeHandler = (options.positionStyle = "fixed" /\ options.appendTo)
  /\ listeners = {DocumentClick, InputKeydown}
        \cup (IF options.positionStyle = "fixed" /\ options.appendTo THEN {WindowResize} ELSE {})
  /\ dom = {}
  /\ rendered = 0
  /\ timers = <<>>
  /\ calls = <<>>
  /\ issued = 0
  /\ inflight = {}
  /\ disposed = FALSE
  /\ ev = "new"
  /\ arg = <<>>
  /\ matcherRan = FALSE
  /\ repositioned = FALSE
  /\ delivered = 0

\* calls the owner of the dropdown makes
Show(query) ==
  /\ ~disposed
  /\ Commit(show(This, query), "show", query, 0)
  /\ UNCHANGED <<issued, inflight, disposed>>

Hide ==
  /\ ~disposed
  /\ Commit(hide(This), "hide", <<>>, 0)
  /\ UNCHANGED <<issued, inflight, disposed>>

NavigateUp ==
  /\ ~disposed
  /\ isVisible
  /\ Commit(Navigate(This, -1), "navigate", <<>>, 0)
  /\ UNCHANGED <<issued, inflight, disposed>>

NavigateDown ==
  /\ ~disposed
  /\ isVisible
  /\ Commit(Navigate(This, 1), "navigate", <<>>, 0)
  /\ UNCHANGED <<issued, inflight, disposed>>

SelectCurrent ==
  /\ ~disposed
  /\ Commit(selectCurrent(This), "selectCurrent", <<>>, 0)
  /\ UNCHANGED <<issued, inflight, disposed>>

Dispose ==
  /\ Commit(dispose(This), "dispose", <<>>, 0)
  /\ disposed' = TRUE
  /\ UNCHANGED <<issued, inflight>>

\* pointer events on the rendered items (populate's onClick / onHover)
ItemClick(index) ==
  /\ container \in dom
  /\ index < rendered
  /\ Commit(selectCurrent(setSelectedIndex(This, index)), "itemClick", <<>>, 0)
  /\ UNCHANGED <<issued, inflight, disposed>>

ItemHover(index) ==
  /\ container \in dom
  /\ index < rendered
  /\ Commit(setSelectedIndex(This, index), "itemHover", <<>>, 0)
  /\ UNCHANGED <<issued, inflight, disposed>>

\* events dispatched to the listeners the constructor registered
DocumentClickEvent(target) ==
  /\ DocumentClick \in listeners
  /\ target = "dropdown" => container \in dom
  /\ Commit(documentClickHandler(This, target), target, <<>>, 0)
  /\ UNCHANGED <<issued, inflight, disposed>>

KeydownEvent(key) ==
  /\ InputKeydown \in listeners
  /\ Commit(tabKeyHandler(This, key), key, <<>>, 0)
  /\ UNCHANGED <<issued, inflight, disposed>>

ResizeEvent ==
  /\ WindowResize \in listeners
  /\ Commit(resizeHandlerCall(This), "resize", <<>>, 0)
  /\ UNCHANGED <<issued, inflight, disposed>>

\* setTimeout callbacks
FireTimer(i) ==
  /\ MayFire(i)
  /\ LET w == [This EXCEPT !.timers = RemoveAt(@, i)]
     IN IF timers[i].kind = "hideTick"
        THEN Commit(hideTick(w), "hideTick", <<>>, 0)
        ELSE Commit(clickConfirm(w), "clickConfirm", <<>>, 0)
  /\ UNCHANGED <<issued, inflight, disposed>>

\* the worker channel: a request is numbered when issued, its response is
\* delivered to setFilteredBangs at any later time
IssueRequest(query) ==
  /\ ~disposed
  /\ issued < MaxRequests
  /\ query # <<>> /\ ~ContainsWhitespace(query)
  /\ issued' = issued + 1
  /\ inflight' = inflight \cup
        {[requestId |-> issued + 1,
          result |-> filterAndSortBangs(Catalog, query, options.maxItems)]}
  /\ Commit(This, "request", <<>>, 0)
  /\ UNCHANGED disposed

DeliverResponse(response) ==
  /\ inflight' = inflight \ {response}
  /\ Commit(setFilteredBangs(This, response.result), "setFilteredBangs", <<>>, response.requestId)
  /\ UNCHANGED <<issued, disposed>>

Next ==
  \/ \E query \in Queries : Show(query)
  \/ Hide
  \/ NavigateUp
  \/ NavigateDown
  \/ SelectCurrent
  \/ Dispose
  \/ \E index \in 0..(Cardinality(Catalog) - 1) : ItemClick(index)
  \/ \E index \in 0..(Cardinality(Catalog) - 1) : ItemHover(index)
  \/ \E target \in {"input", "dropdown", "outside"} : DocumentClickEvent(target)
  \/ \E key \in {"Tab"} : KeydownEvent(key)
  \/ ResizeEvent
  \/ \E i \in 1..Len(timers) : FireTimer(i)
  \/ \E query \in Queries : IssueRequest(query)
  \/ \E response \in inflight : DeliverResponse(response)

Spec == Init /\ [][Next]_vars


\* ------------------------------------------------------------ SearchForm
\* the triggers a selection can insert
BangTexts == {b.t : b \in Catalog}

\* String.prototype.lastIndexOf: 0-based, -1 when absent
LastIndexOf(text, c) ==
  LET at == {k \in 1..Len(text) : text[k] = c}
  IN IF at = {} THEN -1 ELSE (CHOOSE k \in at : \A j \in at : j <= k) - 1

\* the value handleBangSelection writes for an input value and a trigger
SelectionValue(value, bangText) ==
  SubSeq(value, 1, LastIndexOf(value, BangPrefix) + 1) \o bangText \o <<" ">>

\* setting selectionStart = selectionEnd = position; the browser clamps it to
\* the length of the value
PlaceCursor(value, position) ==
  IF position > Len(value) THEN Len(value) ELSE position

\* the callback handleBangSelection passes to setTimeout
placeCursorCallback(timer) == PlaceCursor(inputValue, Len(timer.newValue))

\* handleBangSelection(bangText): setValue, focus, deferred cursor placement
HandleBangSelection(bangText) ==
  /\ LastIndexOf(inputValue, BangPrefix) >= 0
  /\ Len(SelectionValue(inputValue, bangText)) <= MaxValueLen
  /\ Len(cursorTimers) < MaxCursorTimers
  /\ inputValue' = SelectionValue(inputValue, bangText)
  /\ cursor' = Len(SelectionValue(inputValue, bangText))
  /\ cursorTimers' = Append(cursorTimers, [newValue |-> SelectionValue(inputValue, bangText)])
  /\ ev' = "handleBangSelection"
  /\ UNCHANGED <<dropdownVars, submitVars>>

\* handleBangSelection(bangText) on a text without the prefix character
HandleBangSelectionNoBang(bangText) ==
  /\ LastIndexOf(inputValue, BangPrefix) < 0
  /\ ev' = "handleBangSelection"
  /\ UNCHANGED <<dropdownVars, submitVars, cursorVars>>

FireCursorTimer ==
  /\ cursorTimers # <<>>
  /\ cursor' = placeCursorCallback(Head(cursorTimers))
  /\ cursorTimers' = Tail(cursorTimers)
  /\ ev' = "placeCursor"
  /\ UNCHANGED <<dropdownVars, submitVars, inputValue>>

\* the user edits the text or moves the caret
TypeChar(c) ==
  /\ Len(inputValue) < MaxValueLen
  /\ inputValue' = SubSeq(inputValue, 1, cursor) \o <<c>>
                     \o SubSeq(inputValue, cursor + 1, Len(inputValue))
  /\ cursor' = cursor + 1
  /\ ev' = "type"
  /\ UNCHANGED <<dropdownVars, submitVars, cursorTimers>>

Backspace ==
  /\ cursor > 0
  /\ inputValue' = SubSeq(inputValue, 1, cursor - 1)
                     \o SubSeq(inputValue, cursor + 1, Len(inputValue))
  /\ cursor' = cursor - 1
  /\ ev' = "backspace"
  /\ UNCHANGED <<dropdownVars, submitVars, cursorTimers>>

MoveCaret(position) ==
  /\ position # cursor
  /\ cursor' = position
  /\ ev' = "moveCaret"
  /\ UNCHANGED <<dropdownVars, submitVars, inputValue, cursorTimers>>

CursorNext ==
  \/ \E bangText \in BangTexts : HandleBangSelection(bangText)
  \/ \E bangText \in BangTexts : HandleBangSelectionNoBang(bangText)
  \/ FireCursorTimer
  \/ \E c \in {BangPrefix, "g"} : TypeChar(c)
  \/ Backspace
  \/ \E position \in 0..Len(inputValue) : MoveCaret(position)

CursorSpec == Init /\ [][CursorNext]_vars

\* onSubmit(query): append a loading overlay to the body, defer the redirect
OnSubmit(query) ==
  /\ ~navigated
  /\ Len(submitTimers) < MaxSubmits
  /\ LET loadingOverlay == CHOOSE e \in 1..(Cardinality(overlays) + 1) : e \notin overlays
     IN /\ overlays' = overlays \cup {loadingOverlay}
        /\ submitTimers' = Append(submitTimers, [loadingOverlay |-> loadingOverlay, query |-> query])
  /\ ev' = "submit"
  /\ UNCHANGED <<dropdownVars, cursorVars, navigated, location>>

\* a submit callback that leaves its overlay in place when the redirect fails
submitCallbackKeepsOverlay(timer, redirected) == overlays

\* the callback onSubmit passes to setTimeout, given performRedirect()'s result:
\* the overlays in the body afterwards
submitCallback(timer, redirected) ==
  IF ~redirected THEN overlays \ {timer.loadingOverlay} ELSE overlays

FireSubmitTimer(redirected) ==
  /\ submitTimers # <<>>
  /\ overlays' = submitCallback(Head(submitTimers), redirected)
  /\ submitTimers' = Tail(submitTimers)
  /\ location' = Head(submitTimers).query
  /\ navigated' = (navigated \/ redirected)
  /\ ev' = IF redirected THEN "redirected" ELSE "redirectFailed"
  /\ UNCHANGED <<dropdownVars, cursorVars>>

SubmitNext ==
  \/ \E query \in Queries : OnSubmit(query)
  \/ \E redirected \in BOOLEAN : FireSubmitTimer(redirected)

SubmitSpec == Init /\ [][SubmitNext]_vars

\* ------------------------------------------------------------ properties
\* the surface is closed: isVisible false, no selection, no container
SurfaceClosed == ~isVisible /\ selectedIndex = -1 /\ container = NoContainer

\* Closed with the session discarded
Closed == SurfaceClosed /\ filteredBangs = <<>>

\* callbacks the event loop runs on its own: timers, listeners, worker responses
AsyncCallbacks ==
  {"hideTick", "clickConfirm", "input", "dropdown", "outside", "Tab", "resize",
   "setFilteredBangs"}

\* C1: a response that is not for the latest issued request never changes the
\* candidate list, so after responses 2 then 1 the list is request 2's result.
StaleResponseRejected ==
  [][delivered' # 0 /\ delivered' # issued' => filteredBangs' = filteredBangs]_vars

\* C2: once dispose() has returned, no timer, listener or worker response
\* changes isVisible, selectedIndex, filteredBangs or container.
NoCallbackAfterDispose ==
  [][disposed /\ ev' \in AsyncCallbacks =>
       UNCHANGED <<isVisible, selectedIndex, filteredBangs, container>>]_vars

\* C3: after every dispose() call, the first and the repeated one, the
\* controller is Closed: not visible, no selection, no candidates, no container.
DisposeLeavesClosed == ev = "dispose" => Closed

\* C4: after dispose() none of the listeners the constructor registered is
\* still registered, whatever options the dropdown was constructed with.
DisposeRemovesListeners == disposed => listeners = {} /\ ~resizeHandler

DisposedFixedAppendTo ==
  /\ disposed
  /\ ev = "dispose"
  /\ options.positionStyle = "fixed"
  /\ options.appendTo

\* C5: Tab on an open surface with selectedIndex >= 0 calls onSelectBang once,
\* with the trigger at selectedIndex and while the surface is still open, and
\* the surface ends closed.
TabSelectsCurrent ==
  [][ev' = "Tab" /\ isVisible /\ selectedIndex >= 0 /\ options.onSelectBang =>
       /\ selectedIndex < Len(filteredBangs)
       /\ calls' = <<[bangText |-> filteredBangs[selectedIndex + 1].t, isVisible |-> TRUE]>>
       /\ SurfaceClosed']_vars

\* C6: Tab on an open surface with no selection and at least one candidate
\* calls onSelectBang once with the first candidate's trigger, and the surface
\* ends closed.
TabSelectsTop ==
  [][(ev' = "Tab" /\ isVisible /\ selectedIndex = -1
        /\ Len(filteredBangs) > 0 /\ options.onSelectBang) =>
       /\ calls' = <<[bangText |-> filteredBangs[1].t, isVisible |-> TRUE]>>
       /\ SurfaceClosed']_vars

\* C7: an outside click on an open surface closes it and it is closed after
\* the confirmation timer; a click on the input or inside the surface, or with
\* the surface closed, changes no state.
OutsideClickCloses ==
  [][/\ (ev' = "outside" /\ isVisible => SurfaceClosed')
     /\ (ev' = "clickConfirm" => SurfaceClosed')
     /\ (ev' \in {"input", "dropdown"} \/ (ev' = "outside" /\ ~isVisible) =>
           UNCHANGED <<isVisible, selectedIndex, filteredBangs, container, dom, timers>>)]_vars

\* C8: show("") leaves the surface open in the prompt state: matcher not run,
\* no candidates, no selection.
ShowEmptyPrompts ==
  ev = "show" /\ arg = <<>> =>
    isVisible /\ ~matcherRan /\ filteredBangs = <<>> /\ selectedIndex = -1

\* C9: whenever the surface is closed the candidate list is empty and nothing
\* is selected, so no session state survives Closed.
ClosedKeepsNoSession ==
  ~isVisible /\ container = NoContainer => filteredBangs = <<>> /\ selectedIndex = -1

\* C10 as stated: show(query) with any whitespace in the query does not run
\* the matcher, does not change the candidate list and leaves the surface closed.
ShowWhitespaceCloses ==
  [][ev' = "show" /\ ContainsWhitespace(arg') =>
       ~matcherRan' /\ filteredBangs' = filteredBangs /\ SurfaceClosed']_vars

\* C10 amended: show(query) with a space character (U+0020) in the query does
\* not run the matcher, does not change the candidate list and leaves the
\* surface closed, open or closed before.
ShowSpaceCloses ==
  [][ev' = "show" /\ IncludesSpace(arg') =>
       ~matcherRan' /\ filteredBangs' = filteredBangs /\ SurfaceClosed']_vars

ShownWithSpace ==
  /\ ev = "show"
  /\ IncludesSpace(arg)
  /\ filteredBangs # <<>>
  /\ timers # <<>>


\* C11: a worker response delivered while the surface is open leaves it open,
\* listing exactly the delivered candidates, with nothing selected.
DeliveryListsCandidates ==
  [][ev' = "setFilteredBangs" /\ isVisible =>
       /\ isVisible'
       /\ \E r \in inflight : r.requestId = delivered' /\ filteredBangs' = r.result
       /\ selectedIndex' = -1]_vars

ResizeKeepsState ==
  [][ev' = "resize" =>
       /\ UNCHANGED <<isVisible, selectedIndex, filteredBangs, container, dom,
                      rendered, timers, listeners>>
       /\ repositioned' = (isVisible /\ container # NoContainer)]_vars

ResizedWhileOpen == ev = "resize" /\ repositioned /\ isVisible /\ selectedIndex >= 0

\* C14: the timer hide() schedules leaves a surface alone that show() has
\* reopened in the meantime: still open, same container, still attached.
HideTickSparesReopened ==
  [][ev' = "hideTick" /\ isVisible /\ container \in dom =>
       isVisible' /\ container' = container /\ container' \in dom']_vars

\* C15: hide() always ends with the surface closed, and a second hide() right
\* after it changes nothing.
HideReachesClosed ==
  [][ev' = "hide" =>
       /\ SurfaceClosed'
       /\ (ev = "hide" =>
             UNCHANGED <<isVisible, selectedIndex, filteredBangs, container, dom, timers>>)]_vars

\* C18: between events, isVisible is true exactly when a container exists.
VisibleIffContainer == isVisible <=> container # NoContainer

\* C19: selectCurrent() with no valid selection emits nothing and leaves the
\* surface closed, and every onSelectBang call carries the trigger of a
\* candidate of the current list.
SelectCurrentWithoutSelection ==
  [][/\ (ev' = "selectCurrent" /\ ~(selectedIndex >= 0 /\ selectedIndex < Len(filteredBangs)) =>
           calls' = <<>> /\ SurfaceClosed')
     /\ \A k \in 1..Len(calls') :
          \E b \in 1..Len(filteredBangs) : filteredBangs[b].t = calls'[k].bangText]_vars


\* C16: the deferred cursor placement acts only when the input still holds the
\* value its selection wrote; after an edit or a later selection it leaves the
\* cursor where it is.
CursorCallbackRechecks ==
  [][ev' = "placeCursor" /\ Head(cursorTimers).newValue # inputValue =>
       cursor' = cursor]_vars

\* C17: a submit callback whose redirect fails removes the overlay of its own
\* submit, and when every pending callback has fired without a successful
\* redirect no overlay is left.
FailedRedirectRemovesOverlay ==
  [][/\ (ev' = "redirectFailed" => Head(submitTimers).loadingOverlay \notin overlays')
     /\ (submitTimers' = <<>> /\ ~navigated' => overlays' = {})]_vars

SeveralSubmitsOneFailed ==
  /\ ev = "redirectFailed"
  /\ Len(submitTimers) = 1
  /\ ~navigated
  /\ overlays = {submitTimers[1].loadingOverlay}

====
